---- MODULE Spec2Model ----
(***************************************************************************)
(* ResumeOptimizer: the upload -> pipeline -> collect -> archive -> render *)
(* handler process_resume of app.py / gradio_app.py, and the task list of  *)
(* resume_crew/crew.py, as a state machine over a small file system.       *)
(*                                                                         *)
(* Text is a sequence of lexemes: the one-character lexemes "#", " ",      *)
(* "\t", "\n", "_" and words (runs of other characters).  A file name is a *)
(* pair <<stem, ext>>, so that endswith(".md") and os.path.splitext are    *)
(* computed and not assumed.                                               *)
(***************************************************************************)
EXTENDS Integers, Sequences, FiniteSets, TLC

(***************************************************************************)
(* Bounds                                                                  *)
(***************************************************************************)
\* number of requests submitted in one behaviour
MaxRuns == 2
\* number of environment failures (I/O errors, pipeline errors) injected
MaxFaults == 1
\* longest content of optimized_resume.md, in lexemes, in SpecName
MaxLineLen == 5

\* handler threads of the web framework
Procs == {"h1", "h2"}
\* lexemes a generated resume is made of
Lexemes == {"#", " ", "\t", "\n", "Jane", "Doe"}
\* the inputs the UI hands over
Companies == {<<"Acme">>}
Dates == {<<"20250101">>}
PipelineErrors == {"rate limit exceeded"}

(***************************************************************************)
(* Python string operations used by the handler                            *)
(***************************************************************************)
Whitespace == {" ", "\t", "\n"}

RECURSIVE LStripSet(_, _)
\* str.lstrip(chars): drop every leading lexeme that is in chars
LStripSet(s, chars) ==
    IF s # <<>> /\ Head(s) \in chars THEN LStripSet(Tail(s), chars) ELSE s

RECURSIVE RStripSet(_, _)
RStripSet(s, chars) ==
    IF s # <<>> /\ s[Len(s)] \in chars
    THEN RStripSet(SubSeq(s, 1, Len(s) - 1), chars)
    ELSE s

\* str.strip(): drop leading and trailing whitespace
Strip(s) == RStripSet(LStripSet(s, Whitespace), Whitespace)

\* str.replace(old, new) for one-character old and new
Replace(s, old, new) == [i \in 1..Len(s) |-> IF s[i] = old THEN new ELSE s[i]]

\* str.startswith(c) for a one-character c
StartsWith(s, c) == s # <<>> /\ s[1] = c

RECURSIVE ReadLine(_)
\* f.readline() on a freshly opened file: up to and including the first "\n"
ReadLine(content) ==
    IF content = <<>> THEN <<>>
    ELSE IF Head(content) = "\n" THEN <<"\n">>
    ELSE <<Head(content)>> \o ReadLine(Tail(content))

\* filename.endswith("." + ext)
EndsWith(filename, ext) == filename[2] = ext

\* os.path.splitext(path)[0] + ".pdf"
PdfNameOf(filename) == <<filename[1], "pdf">>

(***************************************************************************)
(* resume_crew/crew.py: the tasks, in declaration order, and the file each *)
(* one writes on completion                                                *)
(***************************************************************************)
\* the declarations of generate_report_task and generate_resume_task swapped
TasksReportFirst ==
    << [task |-> "analyze_job_task",                     output_file |-> <<"job_analysis", "json">>],
       [task |-> "optimize_resume_task",                 output_file |-> <<"resume_optimization", "json">>],
       [task |-> "research_company_task",                output_file |-> <<"company_research", "json">>],
       [task |-> "generate_report_task",                 output_file |-> <<"final_report", "md">>],
       [task |-> "generate_resume_task",                 output_file |-> <<"optimized_resume", "md">>],
       [task |-> "generate_interview_questions_task",    output_file |-> <<"interview_questions", "json">>],
       [task |-> "generate_interview_questions_md_task", output_file |-> <<"interview_questions", "md">>] >>

\* crew.py:80-131, in the order of the @task declarations
Tasks ==
    << [task |-> "analyze_job_task",                     output_file |-> <<"job_analysis", "json">>],
       [task |-> "optimize_resume_task",                 output_file |-> <<"resume_optimization", "json">>],
       [task |-> "research_company_task",                output_file |-> <<"company_research", "json">>],
       [task |-> "generate_resume_task",                 output_file |-> <<"optimized_resume", "md">>],
       [task |-> "generate_report_task",                 output_file |-> <<"final_report", "md">>],
       [task |-> "generate_interview_questions_task",    output_file |-> <<"interview_questions", "json">>],
       [task |-> "generate_interview_questions_md_task", output_file |-> <<"interview_questions", "md">>] >>

NumTasks == Len(Tasks)

ArtifactNames == {Tasks[i].output_file : i \in 1..NumTasks}

JOB_ANALYSIS == <<"job_analysis", "json">>
OPTIMIZED_RESUME == <<"optimized_resume", "md">>
FINAL_REPORT == <<"final_report", "md">>
INTERVIEW_QUESTIONS == <<"interview_questions", "md">>

Deliverables == <<OPTIMIZED_RESUME, FINAL_REPORT, INTERVIEW_QUESTIONS>>

PdfNames == {PdfNameOf(Deliverables[i]) : i \in 1..3}

(***************************************************************************)
(* The file system: a directory is a function from the names present in it *)
(* to file contents.  owner is the run whose pipeline produced the text.   *)
(***************************************************************************)
NoJson == [kind |-> "none", has_job_title |-> FALSE, job_title |-> <<>>]
PlainJson == [kind |-> "dict", has_job_title |-> FALSE, job_title |-> <<>>]

\* what the job-analysis stage may leave in job_analysis.json
JobDocs ==
    { [kind |-> "dict", has_job_title |-> TRUE, job_title |-> <<"Engineer">>],
      PlainJson,
      [kind |-> "list", has_job_title |-> FALSE, job_title |-> <<>>],
      [kind |-> "garbage", has_job_title |-> FALSE, job_title |-> <<>>] }

\* what the resume-generation stage may leave in optimized_resume.md
ResumeTexts ==
    { <<"#", " ", "Jane", " ", "Doe", "\n", "Engineer", "\n">>,
      <<"Jane", " ", "Doe", "\n">> }

EmptyDir == [n \in {} |-> NoJson]

IsFile(dir, name) == name \in DOMAIN dir

\* open(path, "w").write(...): create or replace
WriteFile(dir, name, content) ==
    [n \in (DOMAIN dir) \cup {name} |-> IF n = name THEN content ELSE dir[n]]

RemoveFile(dir, name) == [n \in (DOMAIN dir) \ {name} |-> dir[n]]

\* os.path.join("output", folder_name) is identified with folder_name
\* os.makedirs(path, exist_ok=True): an existing folder is left as it is
MakeDirs(fs, path) ==
    IF path \in DOMAIN fs THEN fs
    ELSE [d \in (DOMAIN fs) \cup {path} |-> IF d = path THEN EmptyDir ELSE fs[d]]

(***************************************************************************)
(* The request (inputs of process_resume)                                  *)
(***************************************************************************)
DirLexemes == {"/tmp/gradio/"}
ExtLexemes == {".pdf"}
UploadPath == <<"/tmp/gradio/", "cv", ".pdf">>

\* gr.File hands over nothing, a plain path string (no .name attribute), a
\* file object (.name and .read) or a path string carrying .name
Uploads ==
    { [kind |-> "None", name |-> <<>>],
      [kind |-> "str", name |-> UploadPath],
      [kind |-> "file", name |-> <<>>],
      [kind |-> "file", name |-> <<" ", "\t">>],
      [kind |-> "file", name |-> UploadPath],
      [kind |-> "namedstr", name |-> UploadPath] }

\* an upload the handler has read and stored
Consumed == [kind |-> "consumed", name |-> <<>>]

HasAttrName(new_resume) == new_resume.kind \in {"file", "namedstr"}
HasAttrRead(new_resume) == new_resume.kind = "file"

\* the name is compared with "" without being trimmed
UploadRejectedUntrimmed(new_resume) ==
    new_resume.kind = "None"
    \/ ~(HasAttrName(new_resume) /\ new_resume.name # <<>>)

\* app.py:47, gradio_app.py:38
UploadRejected(new_resume) ==
    new_resume.kind = "None"
    \/ ~(HasAttrName(new_resume) /\ Strip(new_resume.name) # <<>>)

RECURSIVE Basename(_)
\* os.path.basename: what follows the last directory separator
Basename(path) ==
    IF \E i \in 1..Len(path) : path[i] \in DirLexemes
    THEN Basename(Tail(path))
    ELSE path

\* os.path.splitext on a base name
SplitExt(name) ==
    IF Len(name) > 1 /\ name[Len(name)] \in ExtLexemes
    THEN <<SubSeq(name, 1, Len(name) - 1), <<name[Len(name)]>>>>
    ELSE <<name, <<>>>>

\* f"{base_filename}_{current_date}{ext}"
NewResumeFilename(new_resume, current_date) ==
    LET parts == SplitExt(Basename(new_resume.name))
    IN  parts[1] \o <<"_">> \o current_date \o parts[2]

Variants == {"app", "gradio_app"}

(***************************************************************************)
(* What the handler gives back to the UI                                   *)
(***************************************************************************)
\* an output slot holds None, the string "", a path, or another string
SlotNone == [kind |-> "None", dir |-> <<>>, file |-> <<"", "">>]
SlotEmpty == [kind |-> "empty", dir |-> <<>>, file |-> <<"", "">>]
SlotPath(dir, file) == [kind |-> "path", dir |-> dir, file |-> file]
\* f"Error converting {md_filename} to PDF: {str(e)}"
SlotErrorText(md_filename) == [kind |-> "text", dir |-> <<>>, file |-> md_filename]

NoOutputs == <<SlotNone, SlotNone, SlotNone, SlotNone, SlotNone, SlotNone>>

\* an exception: its type, its message and the file it names
Exc(type, msg, filename) == [type |-> type, msg |-> msg, filename |-> filename]
NoFile == <<"", "">>
NoExc == Exc("", "", NoFile)

\* the status message: its fixed text, the str(e) or the folder put into it
Status(text, e, dir) == [text |-> text, exc |-> e, dir |-> dir]

NoResult == [kind |-> "pending", status |-> Status("", NoExc, <<>>), outputs |-> NoOutputs]
Returned(status, outputs) == [kind |-> "returned", status |-> status, outputs |-> outputs]
\* an exception leaves the handler: nothing is returned
Raised(e) == [kind |-> "raised", status |-> Status("", e, <<>>), outputs |-> NoOutputs]

VARIABLES
    pc,         \* pc[p]: where handler p stands in process_resume
    loc,        \* loc[p]: the local variables of handler p
    result,     \* result[p]: what handler p's last run gave back
    ran,        \* ran[p]: the stages the current run of p has executed
    scratch,    \* the directory "output": regular files directly in it
    folders,    \* the directories below "output": folder name -> directory
    knowledge,  \* the directory "knowledge"
    environ,    \* os.environ: the two credentials
    nruns,      \* requests submitted so far
    faults      \* environment failures still to be injected

vars == <<pc, loc, result, ran, scratch, folders, knowledge, environ, nruns, faults>>

NoLocals ==
    [ run |-> 0, variant |-> "app", new_resume |-> [kind |-> "None", name |-> <<>>],
      company_name |-> <<>>, current_date |-> <<>>, new_resume_filename |-> <<>>,
      next_task |-> 0, position_name |-> <<>>, candidate_name |-> <<>>,
      new_output_dir |-> <<>>, listing |-> <<>>, next_pdf |-> 0,
      found |-> EmptyDir,   \* history: the scratch area as the archiver found it
      leftover |-> FALSE,   \* history: kickoff began with files in the scratch area
      pdfs |-> <<SlotNone, SlotNone, SlotNone>> ]

Unset == <<"<unset>">>

Init ==
    /\ pc = [p \in Procs |-> "idle"]
    /\ loc = [p \in Procs |-> NoLocals]
    /\ result = [p \in Procs |-> NoResult]
    /\ ran = [p \in Procs |-> {}]
    /\ scratch = EmptyDir
    /\ folders = [d \in {} |-> EmptyDir]
    /\ knowledge = EmptyDir
    /\ environ = [OPENAI_API_KEY |-> Unset, SERPER_API_KEY |-> Unset]
    /\ nruns = 0
    /\ faults = MaxFaults

\* the handler ends: by a return, or (gradio_app.py, no try) by the exception
Fail(p, prefix, exc) ==
    IF loc[p].variant = "app"
    THEN Returned(Status(prefix, exc, <<>>), NoOutputs)
    ELSE Raised(exc)

(***************************************************************************)
(* process_resume, step by step                                            *)
(***************************************************************************)
Quiet(p) == pc[p] \in {"idle", "done"}

\* app.py:44-52, gradio_app.py:35-40: the click hands the inputs over, the
\* upload is checked, and (app.py) the credentials go into os.environ
Validate(p, variants, uploads, companies) ==
    /\ Quiet(p)
    /\ nruns < MaxRuns
    /\ \E variant \in variants, new_resume \in uploads,
          company_name \in companies, current_date \in Dates :
         /\ loc' = [loc EXCEPT ![p] =
                      [NoLocals EXCEPT !.run = nruns + 1, !.variant = variant,
                                       !.new_resume = new_resume,
                                       !.company_name = company_name,
                                       !.current_date = current_date]]
         /\ IF UploadRejected(new_resume)
            THEN /\ result' = [result EXCEPT ![p] =
                       Returned(Status("Error: Please upload a resume.", NoExc, <<>>),
                                NoOutputs)]
                 /\ pc' = [pc EXCEPT ![p] = "done"]
                 /\ UNCHANGED environ
            ELSE /\ result' = [result EXCEPT ![p] = NoResult]
                 /\ pc' = [pc EXCEPT ![p] = "save"]
                 /\ environ' = IF variant = "app"
                               THEN [OPENAI_API_KEY |-> <<"sk-user">>,
                                     SERPER_API_KEY |-> <<"serper-user">>]
                               ELSE environ
    /\ nruns' = nruns + 1
    /\ ran' = [ran EXCEPT ![p] = {"validate"}]
    /\ UNCHANGED <<scratch, folders, knowledge, faults>>

\* app.py:55-74, gradio_app.py:43-57: the upload is written below knowledge/
SaveUpload(p) ==
    /\ pc[p] = "save"
    /\ ran' = [ran EXCEPT ![p] = @ \cup {"save"}]
    /\ \/ /\ LET name == NewResumeFilename(loc[p].new_resume, loc[p].current_date)
             IN  /\ knowledge' = WriteFile(knowledge, name,
                        [owner |-> loc[p].run, json |-> NoJson, text |-> <<>>])
                 \* new_resume is not read after line 72: the local is dropped
                 /\ loc' = [loc EXCEPT ![p].new_resume_filename = name,
                                       ![p].new_resume = Consumed]
          /\ pc' = [pc EXCEPT ![p] = "init"]
          /\ UNCHANGED <<result, faults>>
       \/ /\ faults > 0
          /\ faults' = faults - 1
          /\ result' = [result EXCEPT ![p] =
                 Fail(p, "Error saving the uploaded resume: ",
                      Exc("OSError", "", NoFile))]
          /\ pc' = [pc EXCEPT ![p] = "done"]
          /\ UNCHANGED <<loc, knowledge>>
    /\ UNCHANGED <<scratch, folders, environ, nruns>>

\* app.py:77-85 constructs ResumeCrew with the four arguments of
\* crew.py:19; gradio_app.py:62 passes model alone, which crew.py:19 rejects
InitCrew(p) ==
    /\ pc[p] = "init"
    /\ ran' = [ran EXCEPT ![p] = @ \cup {"init"}]
    /\ IF loc[p].variant = "gradio_app"
       THEN /\ result' = [result EXCEPT ![p] = Raised(Exc("TypeError", "", NoFile))]
            /\ pc' = [pc EXCEPT ![p] = "done"]
            /\ UNCHANGED <<loc, faults>>
       ELSE \/ /\ loc' = [loc EXCEPT ![p].next_task = 1,
                                      ![p].leftover = (DOMAIN scratch # {})]
               /\ pc' = [pc EXCEPT ![p] = "kickoff"]
               /\ UNCHANGED <<result, faults>>
            \/ /\ faults > 0
               /\ faults' = faults - 1
               /\ result' = [result EXCEPT ![p] =
                      Fail(p, "Error initializing ResumeCrew: ",
                           Exc("ValueError", "", NoFile))]
               /\ pc' = [pc EXCEPT ![p] = "done"]
               /\ UNCHANGED loc
    /\ UNCHANGED <<scratch, folders, knowledge, environ, nruns>>

\* what a task may write into its output_file
TaskOutputs(output_file, run, jobs, texts) ==
    IF output_file = JOB_ANALYSIS
    THEN {[owner |-> run, json |-> j, text |-> <<>>] : j \in jobs}
    ELSE IF output_file = OPTIMIZED_RESUME
    THEN {[owner |-> run, json |-> NoJson, text |-> t] : t \in texts}
    ELSE IF EndsWith(output_file, "json")
    THEN {[owner |-> run, json |-> PlainJson, text |-> <<>>]}
    ELSE {[owner |-> run, json |-> NoJson, text |-> <<"report", "\n">>]}

\* a task whose output_file is already there keeps it and writes nothing
TaskCompletesKeepsExisting(p, jobs, texts) ==
    /\ pc[p] = "kickoff"
    /\ ran' = [ran EXCEPT ![p] = @ \cup {"kickoff"}]
    /\ LET t == Tasks[loc[p].next_task]
       IN  IF IsFile(scratch, t.output_file)
           THEN scratch' = scratch
           ELSE \E content \in TaskOutputs(t.output_file, loc[p].run, jobs, texts) :
                  scratch' = WriteFile(scratch, t.output_file, content)
    /\ loc' = [loc EXCEPT ![p].next_task = @ + 1]
    /\ pc' = [pc EXCEPT ![p] =
                IF loc[p].next_task = NumTasks THEN "collect_job" ELSE "kickoff"]
    /\ UNCHANGED <<result, folders, knowledge, environ, nruns, faults>>

\* app.py:89, crew.py:80-141: kickoff runs the tasks one after the other
\* (Process.sequential); a task that completes saves its output_file
TaskCompletes(p, jobs, texts) ==
    /\ pc[p] = "kickoff"
    /\ ran' = [ran EXCEPT ![p] = @ \cup {"kickoff"}]
    /\ LET t == Tasks[loc[p].next_task]
       IN  \E content \in TaskOutputs(t.output_file, loc[p].run, jobs, texts) :
             scratch' = WriteFile(scratch, t.output_file, content)
    /\ loc' = [loc EXCEPT ![p].next_task = @ + 1]
    /\ pc' = [pc EXCEPT ![p] =
                IF loc[p].next_task = NumTasks THEN "collect_job" ELSE "kickoff"]
    /\ UNCHANGED <<result, folders, knowledge, environ, nruns, faults>>

KickoffTask(p) == TaskCompletes(p, JobDocs, ResumeTexts)

\* the exception is swallowed and the handler goes on to the collector
KickoffFailedGoesOn(p, e) ==
    /\ pc' = [pc EXCEPT ![p] = "collect_job"]
    /\ UNCHANGED <<result, loc, scratch, folders>>

\* app.py:90-91: the except branch around kickoff
KickoffFailed(p, e) ==
    /\ result' = [result EXCEPT ![p] = Fail(p, "Error during resume processing: ", e)]
    /\ pc' = [pc EXCEPT ![p] = "done"]
    /\ UNCHANGED <<loc, scratch, folders>>

\* app.py:88-91: a task raises, and kickoff with it
KickoffRaise(p) ==
    /\ pc[p] = "kickoff"
    /\ faults > 0
    /\ faults' = faults - 1
    /\ ran' = [ran EXCEPT ![p] = @ \cup {"kickoff"}]
    /\ \E msg \in PipelineErrors : KickoffFailed(p, Exc("PipelineError", msg, NoFile))
    /\ UNCHANGED <<knowledge, environ, nruns>>

(***************************************************************************)
(* Output collector                                                        *)
(***************************************************************************)
POSITION == <<"position">>
CANDIDATE == <<"candidate">>

\* job_data.get("job_title") without the default: None, rendered "None"
PositionNameOfNoDefault(dir) ==
    IF ~IsFile(dir, JOB_ANALYSIS) THEN POSITION
    ELSE LET job_data == dir[JOB_ANALYSIS].json
         IN  IF job_data.kind # "dict" THEN POSITION
             ELSE IF job_data.has_job_title THEN job_data.job_title
             ELSE <<"None">>

\* app.py:94-100: open, json.load, job_data.get("job_title", "position");
\* a missing file, text that is no JSON (JSONDecodeError) and JSON that is
\* no object (AttributeError on .get) all end in the except branch
PositionNameOf(dir) ==
    IF ~IsFile(dir, JOB_ANALYSIS) THEN POSITION
    ELSE LET job_data == dir[JOB_ANALYSIS].json
         IN  IF job_data.kind # "dict" THEN POSITION
             ELSE IF job_data.has_job_title THEN job_data.job_title
             ELSE POSITION

\* the heading marker is dropped and the spaces replaced, without strip()
CandidateNameOfTextUntrimmed(text) ==
    LET first_line == ReadLine(text)
    IN  IF StartsWith(first_line, "#")
        THEN Replace(LStripSet(first_line, {"#"}), " ", "_")
        ELSE CANDIDATE

\* app.py:106-108 on the text of optimized_resume.md
CandidateNameOfText(text) ==
    LET first_line == ReadLine(text)
    IN  IF StartsWith(first_line, "#")
        THEN Replace(Strip(LStripSet(first_line, {"#"})), " ", "_")
        ELSE CANDIDATE

\* app.py:102-110
CandidateNameOf(dir) ==
    IF ~IsFile(dir, OPTIMIZED_RESUME) THEN CANDIDATE
    ELSE CandidateNameOfText(dir[OPTIMIZED_RESUME].text)

\* app.py:93-100; the file may also be unreadable (open raises)
CollectJobTitle(p) ==
    /\ pc[p] = "collect_job"
    /\ ran' = [ran EXCEPT ![p] = @ \cup {"collect"}]
    /\ \/ /\ loc' = [loc EXCEPT ![p].position_name = PositionNameOf(scratch)]
          /\ UNCHANGED faults
       \/ /\ faults > 0
          /\ IsFile(scratch, JOB_ANALYSIS)
          /\ faults' = faults - 1
          /\ loc' = [loc EXCEPT ![p].position_name = POSITION]
    /\ pc' = [pc EXCEPT ![p] = "collect_name"]
    /\ UNCHANGED <<result, scratch, folders, knowledge, environ, nruns>>

\* app.py:102-110
CollectCandidateName(p) ==
    /\ pc[p] = "collect_name"
    /\ ran' = [ran EXCEPT ![p] = @ \cup {"collect"}]
    /\ \/ /\ loc' = [loc EXCEPT ![p].candidate_name = CandidateNameOf(scratch)]
          /\ UNCHANGED faults
       \/ /\ faults > 0
          /\ IsFile(scratch, OPTIMIZED_RESUME)
          /\ faults' = faults - 1
          /\ loc' = [loc EXCEPT ![p].candidate_name = CANDIDATE]
    /\ pc' = [pc EXCEPT ![p] = "mkdir"]
    /\ UNCHANGED <<result, scratch, folders, knowledge, environ, nruns>>

(***************************************************************************)
(* Archiver                                                                *)
(***************************************************************************)
\* app.py:114
FolderName(company_name, position_name, candidate_name, current_date) ==
    company_name \o <<"_">> \o position_name \o <<"_">> \o candidate_name
        \o <<"_">> \o current_date

RECURSIVE SetToSeq(_)
SetToSeq(S) ==
    IF S = {} THEN <<>>
    ELSE LET x == CHOOSE y \in S : TRUE IN <<x>> \o SetToSeq(S \ {x})

\* the order in which a directory hands out its entries
DirOrder(names) ==
    SelectSeq([i \in 1..NumTasks |-> Tasks[i].output_file], LAMBDA n : n \in names)

\* os.listdir("output"): the names of the files and of the folders in it.
\* The order is the file system's; the loop treats each entry on its own, and
\* the model lists the files in the order the tasks wrote them, then the folders
ListDirs(dir, fs) ==
    {DirOrder(DOMAIN dir) \o SetToSeq(DOMAIN fs)}

\* only the JSON records are taken
ArchivableJsonOnly(dir, filename) ==
    /\ EndsWith(filename, "json")
    /\ IsFile(dir, filename)

\* app.py:122-123
Archivable(dir, filename) ==
    /\ EndsWith(filename, "json") \/ EndsWith(filename, "md")
    /\ IsFile(dir, filename)

\* app.py:113-116, 118: the RunFolder is made, the scratch area is listed
MakeRunFolder(p) ==
    /\ pc[p] = "mkdir"
    /\ ran' = [ran EXCEPT ![p] = @ \cup {"archive"}]
    /\ LET folder_name == FolderName(loc[p].company_name, loc[p].position_name,
                                     loc[p].candidate_name, loc[p].current_date)
       IN  /\ folders' = MakeDirs(folders, folder_name)
           /\ \E listing \in ListDirs(scratch, folders') :
                loc' = [loc EXCEPT ![p].new_output_dir = folder_name,
                                   ![p].listing = listing,
                                   ![p].found = scratch]
    /\ pc' = [pc EXCEPT ![p] = "move"]
    /\ UNCHANGED <<result, scratch, knowledge, environ, nruns, faults>>

\* shutil.move(src, dst) on one file system: a rename, which replaces dst
MoveInto(fs, path, dir, filename) ==
    [fs EXCEPT ![path] = WriteFile(@, filename, dir[filename])]

\* the failure is passed over and the handler goes on to the renderer
OrganizingFailedGoesOn(p, e) ==
    /\ pc' = [pc EXCEPT ![p] = "render"]
    /\ loc' = [loc EXCEPT ![p].listing = <<>>]
    /\ UNCHANGED <<result, scratch, folders>>

\* the archiver is started again
OrganizingFailedRetries(p, e) ==
    /\ pc' = [pc EXCEPT ![p] = "mkdir"]
    /\ UNCHANGED <<result, loc, scratch, folders>>

\* app.py:125-126: the except branch around the archiver
OrganizingFailed(p, e) ==
    /\ result' = [result EXCEPT ![p] = Fail(p, "Error organizing output files: ", e)]
    /\ pc' = [pc EXCEPT ![p] = "done"]
    /\ UNCHANGED <<loc, scratch, folders>>

\* app.py:118-126: one iteration of the loop over the listing
MoveArtifact(p) ==
    /\ pc[p] = "move"
    /\ loc[p].listing # <<>>
    /\ ran' = [ran EXCEPT ![p] = @ \cup {"archive"}]
    /\ LET filename == Head(loc[p].listing)
           rest == Tail(loc[p].listing)
           continue ==
               /\ loc' = [loc EXCEPT ![p].listing = rest]
               /\ pc' = [pc EXCEPT ![p] = IF rest = <<>> THEN "render" ELSE "move"]
               /\ UNCHANGED result
       IN  IF filename # loc[p].new_output_dir /\ Archivable(scratch, filename)
           THEN \/ /\ folders' = MoveInto(folders, loc[p].new_output_dir, scratch, filename)
                   /\ scratch' = RemoveFile(scratch, filename)
                   /\ continue
                   /\ UNCHANGED faults
                \/ /\ faults > 0
                   /\ faults' = faults - 1
                   /\ OrganizingFailed(p, Exc("OSError", "", filename))
           ELSE /\ continue
                /\ UNCHANGED <<scratch, folders, faults>>
    /\ UNCHANGED <<knowledge, environ, nruns>>

(***************************************************************************)
(* Document renderer                                                       *)
(***************************************************************************)
\* app.py:22-36 when MarkdownPdf renders and saves: the PDF is written
\* beside the source and its path returned
ConvertMdToPdf(fs, path, md_filename) ==
    IF ~IsFile(fs[path], md_filename)
    THEN [fs |-> fs, pdf |-> SlotEmpty]
    ELSE LET pdf_name == PdfNameOf(md_filename)
             written == [fs EXCEPT ![path] = WriteFile(@, pdf_name, @[md_filename])]
         IN  [fs |-> written,
              pdf |-> IF IsFile(written[path], pdf_name)
                      THEN SlotPath(path, pdf_name) ELSE SlotEmpty]

\* app.py:129-140: md_to_pdf_in_dir on the next of the three deliverables;
\* reading or saving may raise, which line 135-136 turns into a string
RenderPdf(p) ==
    /\ pc[p] = "render"
    /\ ran' = [ran EXCEPT ![p] = @ \cup {"render"}]
    /\ LET i == loc[p].next_pdf + 1
           md_filename == Deliverables[i]
           path == loc[p].new_output_dir
       IN  /\ \/ /\ LET done == ConvertMdToPdf(folders, path, md_filename)
                    IN  /\ folders' = done.fs
                        /\ loc' = [loc EXCEPT ![p].next_pdf = i,
                                              ![p].pdfs[i] = done.pdf]
                 /\ UNCHANGED faults
              \/ /\ faults > 0
                 /\ IsFile(folders[path], md_filename)
                 /\ faults' = faults - 1
                 /\ loc' = [loc EXCEPT ![p].next_pdf = i,
                        ![p].pdfs[i] = SlotErrorText(md_filename)]
                 /\ UNCHANGED folders
           /\ pc' = [pc EXCEPT ![p] = IF i = 3 THEN "return" ELSE "render"]
    /\ UNCHANGED <<result, scratch, knowledge, environ, nruns>>

\* app.py:142-144
Return(p) ==
    /\ pc[p] = "return"
    /\ ran' = [ran EXCEPT ![p] = @ \cup {"return"}]
    /\ LET pdf_opt == loc[p].pdfs[1]
           pdf_final == loc[p].pdfs[2]
           pdf_int == loc[p].pdfs[3]
       IN  result' = [result EXCEPT ![p] =
               Returned(Status("Processing completed", NoExc, loc[p].new_output_dir),
                        <<pdf_opt, pdf_opt, pdf_final, pdf_final, pdf_int, pdf_int>>)]
    /\ pc' = [pc EXCEPT ![p] = "done"]
    /\ UNCHANGED <<loc, scratch, folders, knowledge, environ, nruns, faults>>

(***************************************************************************)
(* Specifications                                                          *)
(***************************************************************************)
\* a request is served by handler "h1", after the one before it has ended
Submit ==
    /\ \A q \in Procs : Quiet(q)
    /\ Validate("h1", Variants, Uploads, Companies)

Next ==
    \/ Submit
    \/ \E p \in Procs :
         \/ SaveUpload(p)
         \/ InitCrew(p)
         \/ KickoffTask(p)
         \/ KickoffRaise(p)
         \/ CollectJobTitle(p)
         \/ CollectCandidateName(p)
         \/ MakeRunFolder(p)
         \/ MoveArtifact(p)
         \/ RenderPdf(p)
         \/ Return(p)

Spec == Init /\ [][Next]_vars

\* Two handlers serve one request each at the same time.  The requests are
\* well formed, each for its own company, and the pipeline writes one fixed
\* job analysis and one fixed resume.
ConcurrentCompanies(p) == IF p = "h1" THEN {<<"Acme">>} ELSE {<<"Globex">>}
ConcurrentJobDocs == {[kind |-> "dict", has_job_title |-> TRUE, job_title |-> <<"Engineer">>]}
ConcurrentResumeTexts == {<<"#", " ", "Jane", " ", "Doe", "\n", "Engineer", "\n">>}

\* a request is taken by any free handler, while others are being served
SubmitConcurrent(p) ==
    /\ pc[p] = "idle"
    /\ Validate(p, {"app"}, {[kind |-> "file", name |-> UploadPath]},
                ConcurrentCompanies(p))

KickoffTaskConcurrent(p) == TaskCompletes(p, ConcurrentJobDocs, ConcurrentResumeTexts)

\* the loop of moves takes milliseconds and a pipeline task minutes: no step
\* of the other handler falls between two iterations of the loop
InLoop(q) == pc[q] = "move"

Turn(p) == \A q \in Procs \ {p} : ~InLoop(q)

NextConcurrent ==
    \E p \in Procs :
        \/ Turn(p) /\ SubmitConcurrent(p)
        \/ Turn(p) /\ SaveUpload(p)
        \/ Turn(p) /\ InitCrew(p)
        \/ Turn(p) /\ KickoffTaskConcurrent(p)
        \/ Turn(p) /\ CollectJobTitle(p)
        \/ Turn(p) /\ CollectCandidateName(p)
        \/ Turn(p) /\ MakeRunFolder(p)
        \/ Turn(p) /\ MoveArtifact(p)
        \/ Turn(p) /\ RenderPdf(p)
        \/ Turn(p) /\ Return(p)

\* no environment failure is injected while two handlers run
InitConcurrent ==
    /\ pc = [p \in Procs |-> "idle"]
    /\ loc = [p \in Procs |-> NoLocals]
    /\ result = [p \in Procs |-> NoResult]
    /\ ran = [p \in Procs |-> {}]
    /\ scratch = EmptyDir
    /\ folders = [d \in {} |-> EmptyDir]
    /\ knowledge = EmptyDir
    /\ environ = [OPENAI_API_KEY |-> Unset, SERPER_API_KEY |-> Unset]
    /\ nruns = 0
    /\ faults = 0

SpecConcurrent == InitConcurrent /\ [][NextConcurrent]_vars

\* every text of at most n lexemes
TextsUpTo(n) == UNION {[1..k -> Lexemes] : k \in 0..n}

\* Handler "h1" has come back from kickoff of the first run: the scratch
\* area holds what the pipeline wrote (job analysis job, resume text), less
\* the files gone that another handler's archiver has moved away meanwhile
AfterKickoff(at, job, text, gone) ==
    /\ pc = [p \in Procs |-> IF p = "h1" THEN at ELSE "idle"]
    /\ scratch = [n \in ArtifactNames \ gone |->
           IF n = OPTIMIZED_RESUME
           THEN [owner |-> 1, json |-> NoJson, text |-> text]
           ELSE IF n = JOB_ANALYSIS
           THEN [owner |-> 1, json |-> job, text |-> <<>>]
           ELSE CHOOSE c \in TaskOutputs(n, 1, JobDocs, ResumeTexts) : TRUE]
    /\ loc = [p \in Procs |->
           IF p = "h1"
           THEN [NoLocals EXCEPT
                   !.run = 1, !.variant = "app", !.new_resume = Consumed,
                   !.company_name = <<"Acme">>, !.current_date = <<"20250101">>,
                   !.new_resume_filename =
                       NewResumeFilename([kind |-> "file", name |-> UploadPath],
                                         <<"20250101">>),
                   !.next_task = NumTasks + 1,
                   !.position_name =
                       IF at = "collect_job" THEN <<>> ELSE PositionNameOf(scratch)]
           ELSE NoLocals]
    /\ result = [p \in Procs |-> NoResult]
    /\ ran = [p \in Procs |->
           IF p = "h1"
           THEN {"validate", "save", "init", "kickoff"}
                    \cup (IF at = "collect_job" THEN {} ELSE {"collect"})
           ELSE {}]
    /\ folders = [d \in {} |-> EmptyDir]
    /\ knowledge = [n \in {loc["h1"].new_resume_filename} |->
                       [owner |-> 1, json |-> NoJson, text |-> <<>>]]
    /\ environ = [OPENAI_API_KEY |-> <<"sk-user">>, SERPER_API_KEY |-> <<"serper-user">>]
    /\ nruns = 1
    /\ faults = MaxFaults

\* the candidate name, for every resume text of at most MaxLineLen lexemes
InitName ==
    \E text \in TextsUpTo(MaxLineLen), gone \in {{}, {OPTIMIZED_RESUME}} :
        AfterKickoff("collect_name", PlainJson, text, gone)

NextName == CollectCandidateName("h1")

SpecName == InitName /\ [][NextName]_vars

\* the collector, the archiver and the renderer on every scratch area the
\* handler may find on its return from kickoff
InitCollector ==
    \E job \in JobDocs, text \in ResumeTexts, gone \in SUBSET ArtifactNames :
        AfterKickoff("collect_job", job, text, gone)

NextCollector ==
    \/ CollectJobTitle("h1")
    \/ CollectCandidateName("h1")
    \/ MakeRunFolder("h1")
    \/ MoveArtifact("h1")
    \/ RenderPdf("h1")
    \/ Return("h1")

SpecCollector == InitCollector /\ [][NextCollector]_vars

(***************************************************************************)
(* Claims                                                                  *)
(***************************************************************************)
LaterStages == {"collect", "archive", "render", "return"}

\* a handler that has ended stays as it is until it takes a new request
Ended(p) ==
    pc[p] = "done" =>
        \/ pc'[p] = "done" /\ loc'[p] = loc[p] /\ result'[p] = result[p] /\ ran'[p] = ran[p]
        \/ loc'[p].run # loc[p].run

\* C1: when kickoff raises, the handler returns the status "Error during
\* resume processing: <the pipeline's message>" with all six outputs None and
\* ends there: nothing is collected, no RunFolder is made, no scratch file is
\* moved, no PDF is written, and the run stays ended.
C1_PipelineFailureIsTerminal ==
    [][\A p \in Procs :
         /\ (pc[p] = "kickoff" /\ faults' < faults) =>
               /\ pc'[p] = "done"
               /\ \E msg \in PipelineErrors :
                    result'[p] = Returned(Status("Error during resume processing: ",
                                                 Exc("PipelineError", msg, NoFile), <<>>),
                                          NoOutputs)
               /\ ran'[p] \cap LaterStages = {}
               /\ loc'[p].new_output_dir = <<>>
               /\ UNCHANGED <<scratch, folders>>
         /\ Ended(p)]_vars

\* a pipeline has failed part-way: its first output is in the scratch area
C1_Witness ==
    \E p \in Procs :
        /\ pc[p] = "done"
        /\ result[p].status.text = "Error during resume processing: "
        /\ IsFile(scratch, JOB_ANALYSIS)
        /\ scratch[JOB_ANALYSIS].owner = loc[p].run
        /\ ~IsFile(scratch, INTERVIEW_QUESTIONS)

\* an upload that is None, or whose name is blank once trimmed
AbsentOrBlank(new_resume) ==
    \/ new_resume.kind = "None"
    \/ /\ new_resume.kind \in {"file", "namedstr"}
       /\ \A i \in 1..Len(new_resume.name) : new_resume.name[i] \in Whitespace

\* C2: a request whose upload is None, or whose name is blank after trimming,
\* gets the status "Error: Please upload a resume." with all outputs None, and
\* nothing else happens: the knowledge and output directories and os.environ
\* are as before and no later stage is entered.
C2_RejectedUploadHasNoSideEffect ==
    [][\A p \in Procs :
         (loc'[p].run # loc[p].run /\ AbsentOrBlank(loc'[p].new_resume)) =>
            /\ result'[p] = Returned(Status("Error: Please upload a resume.", NoExc, <<>>),
                                     NoOutputs)
            /\ pc'[p] = "done"
            /\ ran'[p] = {"validate"}
            /\ UNCHANGED <<knowledge, scratch, folders, environ>>]_vars

\* a blank-named upload has been turned away after an earlier run was served
C2_Witness ==
    \E p \in Procs :
        /\ pc[p] = "done"
        /\ loc[p].new_resume = [kind |-> "file", name |-> <<" ", "\t">>]
        /\ result[p].status.text = "Error: Please upload a resume."
        /\ loc[p].run = 2

ArtifactSuffix(filename) == filename[2] \in {"md", "json"}

\* the archiver of handler p has gone through its whole listing
Archived(p) ==
    \/ pc[p] \in {"render", "return"}
    \/ pc[p] = "done" /\ result[p].status.text = "Processing completed"

\* C3: once the archiver of a run has completed, no file ending in .md or
\* .json is directly in the scratch area, and every such file the archiver
\* found there is in the RunFolder under its name, and nowhere else.
C3_ScratchIsEmptiedIntoRunFolder ==
    \A p \in Procs :
        Archived(p) =>
            LET dir == loc[p].new_output_dir
                found == loc[p].found
            IN  /\ \A n \in DOMAIN scratch : ~ArtifactSuffix(n)
                /\ \A n \in DOMAIN found :
                     ArtifactSuffix(n) =>
                        /\ dir \in DOMAIN folders
                        /\ n \in DOMAIN folders[dir]
                        /\ folders[dir][n] = found[n]
                        /\ \A d \in DOMAIN folders \ {dir} :
                             n \in DOMAIN folders[d] => folders[d][n] # found[n]

\* the second run has archived the seven files of its pipeline
C3_Witness ==
    \E p \in Procs :
        /\ pc[p] = "render"
        /\ loc[p].run = 2
        /\ Cardinality(DOMAIN loc[p].found) = NumTasks
        /\ Cardinality(DOMAIN folders[loc[p].new_output_dir]) = NumTasks

\* C4: the folder a run archives into is its own: when the archiver has made
\* it, it holds no file of a previous run, also when an earlier run computed
\* the same folder name.
C4_RunFolderIsFresh ==
    [][\A p \in Procs :
         (pc[p] = "mkdir" /\ pc'[p] = "move") =>
            folders'[loc'[p].new_output_dir] = EmptyDir]_vars

\* C5: with two handlers running at the same time, the RunFolder of a run
\* holds only artifacts that the pipeline of that run wrote.
C5_RunFolderHoldsOwnArtifactsOnly ==
    \A p \in Procs :
        Archived(p) =>
            \A n \in DOMAIN folders[loc[p].new_output_dir] :
                folders[loc[p].new_output_dir][n].owner = loc[p].run

Rank(at) ==
    CASE at = "idle" -> 0
      [] at = "save" -> 1
      [] at = "init" -> 2
      [] at = "kickoff" -> 3
      [] at = "collect_job" -> 4
      [] at = "collect_name" -> 5
      [] at = "mkdir" -> 6
      [] at = "move" -> 7
      [] at = "render" -> 8
      [] at = "return" -> 9
      [] at = "done" -> 10

StageOrder ==
    <<"validate", "save", "init", "kickoff", "collect", "archive", "render", "return">>

\* C6: within a run the handler only moves forward through upload save,
\* pipeline, collection, archiving, rendering and return; a stage has been
\* executed only if every stage before it has, and it begins only when the
\* one before it is complete (all tasks done, the listing exhausted, the
\* three deliverables rendered).
C6_StagesInOrder ==
    [][\A p \in Procs :
         /\ pc'[p] # pc[p] =>
               \/ Rank(pc'[p]) > Rank(pc[p])
               \/ pc[p] = "done" /\ loc'[p].run # loc[p].run
         /\ loc'[p].run = loc[p].run => ran[p] \subseteq ran'[p]
         /\ \A i \in 2..Len(StageOrder) :
               StageOrder[i] \in ran'[p] => StageOrder[i - 1] \in ran'[p]
         /\ pc'[p] = "kickoff" => loc'[p].new_resume_filename \in DOMAIN knowledge'
         /\ pc'[p] = "collect_job" => loc'[p].next_task = NumTasks + 1
         /\ pc'[p] = "mkdir" => "collect" \in ran'[p]
         /\ pc'[p] = "render" => loc'[p].listing = <<>>
         /\ pc'[p] = "return" => loc'[p].next_pdf = 3
         /\ result'[p].status.text = "Processing completed" => ran'[p] = {StageOrder[i] : i \in 1..Len(StageOrder)}
      ]_vars

\* a run has gone through every stage and returned
C6_Witness ==
    \E p \in Procs :
        /\ pc[p] = "done"
        /\ result[p].status.text = "Processing completed"
        /\ "return" \in ran[p]

\* job_analysis.json is missing, is no JSON, or is an object without job_title
JobTitleUnavailable ==
    \/ ~IsFile(scratch, JOB_ANALYSIS)
    \/ scratch[JOB_ANALYSIS].json.kind = "garbage"
    \/ scratch[JOB_ANALYSIS].json.kind = "dict" /\ ~scratch[JOB_ANALYSIS].json.has_job_title

\* C7: when job_analysis.json is missing, unreadable, unparsable or without
\* job_title, the collector takes "position" as the job title and goes on to
\* the candidate name; the run then ends with "Processing completed" and the
\* folder named with that title, unless moving a file fails.
C7_MissingJobTitleFallsBack ==
    /\ [][\A p \in Procs :
            (pc[p] = "collect_job" /\ pc'[p] # "collect_job"
                /\ (JobTitleUnavailable \/ faults' < faults)) =>
               /\ loc'[p].position_name = POSITION
               /\ pc'[p] = "collect_name"
               /\ result'[p] = result[p]]_vars
    /\ [](\A p \in Procs :
            (pc[p] = "done" /\ "collect" \in ran[p]) =>
               \/ /\ result[p].kind = "returned"
                  /\ result[p].status.text = "Processing completed"
                  /\ result[p].status.dir =
                        FolderName(loc[p].company_name, loc[p].position_name,
                                   loc[p].candidate_name, loc[p].current_date)
               \/ /\ result[p].status.text = "Error organizing output files: "
                  /\ faults < MaxFaults)

\* a run whose job_analysis.json was gone has completed under the placeholder
C7_Witness ==
    \E p \in Procs :
        /\ pc[p] = "done"
        /\ result[p].status.text = "Processing completed"
        /\ ~IsFile(loc[p].found, JOB_ANALYSIS)
        /\ IsFile(loc[p].found, OPTIMIZED_RESUME)
        /\ SubSeq(result[p].status.dir, 1, 3) = <<"Acme", "_", "position">>

\* the candidate name as the claim words it, position by position
ClaimedCandidateName(text) ==
    LET breaks == {i \in 1..Len(text) : text[i] = "\n"}
        stop == IF breaks = {} THEN Len(text)
                ELSE CHOOSE i \in breaks : \A j \in breaks : i <= j
        line == SubSeq(text, 1, stop)
        marks == {i \in 0..Len(line) : \A j \in 1..i : line[j] = "#"}
        nmarks == CHOOSE i \in marks : \A j \in marks : j <= i
        body == SubSeq(line, nmarks + 1, Len(line))
        inked == {i \in 1..Len(body) : body[i] \notin Whitespace}
        first == CHOOSE i \in inked : \A j \in inked : i <= j
        last == CHOOSE i \in inked : \A j \in inked : j <= i
    IN  IF nmarks = 0 THEN CANDIDATE
        ELSE IF inked = {} THEN <<>>
        ELSE [i \in 1..(last - first + 1) |->
                 IF body[first + i - 1] = " " THEN "_" ELSE body[first + i - 1]]

\* C8: the candidate name is "candidate" when optimized_resume.md is missing
\* or unreadable or its first line does not begin with "#"; otherwise it is
\* the first line without its leading "#"s, trimmed, each space replaced by
\* "_" ("# Jane Doe" gives "Jane_Doe").
C8_CandidateNameFromHeading ==
    \A p \in Procs :
        pc[p] = "mkdir" =>
            /\ loc[p].candidate_name =
                  IF ~IsFile(scratch, OPTIMIZED_RESUME) \/ faults < MaxFaults
                  THEN CANDIDATE
                  ELSE ClaimedCandidateName(scratch[OPTIMIZED_RESUME].text)
            /\ (/\ IsFile(scratch, OPTIMIZED_RESUME)
                /\ faults = MaxFaults
                /\ scratch[OPTIMIZED_RESUME].text = <<"#", " ", "Jane", " ", "Doe">>)
                  => loc[p].candidate_name = <<"Jane", "_", "Doe">>

\* the name has been taken from a heading with blanks on both sides
C8_Witness ==
    \E p \in Procs :
        /\ pc[p] = "mkdir"
        /\ IsFile(scratch, OPTIMIZED_RESUME)
        /\ scratch[OPTIMIZED_RESUME].text = <<"#", " ", "Jane", " ", "\n">>
        /\ loc[p].candidate_name = <<"Jane">>

\* C9: after rendering, the slot of each deliverable is the empty result when
\* its Markdown file is not in the RunFolder, and otherwise the path of a PDF
\* that exists beside it; the viewer and the download of a deliverable get the
\* same value.
C9_SlotsArePdfPathsOrEmpty ==
    \A p \in Procs :
        (pc[p] = "return" \/ (pc[p] = "done" /\ result[p].status.text = "Processing completed")) =>
            LET path == loc[p].new_output_dir
            IN  \A i \in 1..3 :
                  /\ IF IsFile(folders[path], Deliverables[i])
                     THEN /\ loc[p].pdfs[i] = SlotPath(path, PdfNameOf(Deliverables[i]))
                          /\ IsFile(folders[path], PdfNameOf(Deliverables[i]))
                     ELSE loc[p].pdfs[i] = SlotEmpty
                  /\ pc[p] = "done" =>
                        /\ result[p].outputs[2 * i - 1] = loc[p].pdfs[i]
                        /\ result[p].outputs[2 * i] = loc[p].pdfs[i]

\* C10 as claimed: a failing move ends the archiver only, and the handler
\* goes on to the renderer.
C10_MoveFailureSkipsToRenderer ==
    [][\A p \in Procs :
         (pc[p] = "move" /\ faults' < faults) =>
            /\ pc'[p] = "render"
            /\ result'[p] = result[p]]_vars

\* C10 as amended: a failing move ends the run: the status is "Error
\* organizing output files: <the error>", the six outputs are None, the
\* files stay where they were, and the renderer is not executed.
C10_MoveFailureEndsRun ==
    [][\A p \in Procs :
         /\ (pc[p] = "move" /\ faults' < faults) =>
               /\ pc'[p] = "done"
               /\ result'[p].kind = "returned"
               /\ result'[p].status.text = "Error organizing output files: "
               /\ result'[p].status.exc.type = "OSError"
               /\ result'[p].outputs = NoOutputs
               /\ ran'[p] \cap {"render", "return"} = {}
               /\ UNCHANGED <<scratch, folders>>
         /\ Ended(p)]_vars

\* a move has failed after some files were moved and before others were
C10_Witness ==
    \E p \in Procs :
        /\ pc[p] = "done"
        /\ result[p].status.text = "Error organizing output files: "
        /\ IsFile(folders[loc[p].new_output_dir], JOB_ANALYSIS)
        /\ IsFile(scratch, OPTIMIZED_RESUME)
        /\ PdfNames \cap DOMAIN folders[loc[p].new_output_dir] = {}


(***************************************************************************)
(* C11: the stages of the pipeline and the files it deposits               *)
(***************************************************************************)
\* the files in the scratch area that the pipeline of p's run wrote
Deposited(p) == {f \in DOMAIN scratch : scratch[f].owner = loc[p].run}

NamedArtifacts ==
    { <<"job_analysis", "json">>, <<"optimized_resume", "md">>,
      <<"final_report", "md">>, <<"interview_questions", "md">> }

\* C11 as stated: when the pipeline has succeeded it has executed six
\* stages and the scratch area holds, of this run, the four named files and
\* two further JSON files.
C11_SixStagesSixFiles ==
    \A p \in Procs :
        pc[p] = "collect_job" =>
            /\ loc[p].next_task - 1 = 6
            /\ NamedArtifacts \subseteq Deposited(p)
            /\ Cardinality(Deposited(p) \ NamedArtifacts) = 2
            /\ \A f \in Deposited(p) \ NamedArtifacts : EndsWith(f, "json")

\* the files of the stages in the order job analysis, resume optimization,
\* company research, resume generation, report generation, interview
\* questions as JSON, interview questions as Markdown
StageFiles ==
    << <<"job_analysis", "json">>, <<"resume_optimization", "json">>,
       <<"company_research", "json">>, <<"optimized_resume", "md">>,
       <<"final_report", "md">>, <<"interview_questions", "json">>,
       <<"interview_questions", "md">> >>

\* C11 amended: the pipeline executes seven stages one after the other in
\* the fixed order job analysis, resume optimization, company research,
\* resume generation, report generation, interview questions (JSON),
\* interview questions (Markdown): while it runs, the files of this run in
\* the scratch area are those of the stages completed so far, a prefix of
\* that order, and on success they are the seven files job_analysis.json,
\* optimized_resume.md, final_report.md, interview_questions.md and three
\* further JSON files.
C11_SevenStagesSevenFiles ==
    \A p \in Procs :
        pc[p] \in {"kickoff", "collect_job"} =>
            /\ loc[p].next_task \in 1..8
            /\ Deposited(p) = {StageFiles[i] : i \in 1..(loc[p].next_task - 1)}
            /\ pc[p] = "collect_job" =>
                   /\ loc[p].next_task - 1 = 7
                   /\ NamedArtifacts \subseteq Deposited(p)
                   /\ Cardinality(Deposited(p) \ NamedArtifacts) = 3
                   /\ \A f \in Deposited(p) \ NamedArtifacts : EndsWith(f, "json")

\* the pipeline of a run has succeeded and its seven files are in scratch
C11_Witness ==
    \E p \in Procs :
        /\ pc[p] = "collect_job"
        /\ "kickoff" \in ran[p]
        /\ Cardinality(Deposited(p)) = 7


(***************************************************************************)
(* C12: runs served one after the other use their own pipeline output      *)
(***************************************************************************)
\* the collector and the archiver of p's run have the scratch area before
\* them: the pipeline has succeeded and the run has not been cut short
Collecting(p) == pc[p] \in {"collect_job", "collect_name", "mkdir"}

Archiving(p) == pc[p] = "move" \/ Archived(p)

\* the name the collector holds is the fallback or is read from doc
TitleFrom(position_name, doc) ==
    \/ position_name = POSITION
    \/ doc.json.kind = "dict" /\ doc.json.has_job_title
                              /\ position_name = doc.json.job_title

NameFrom(candidate_name, doc) ==
    \/ candidate_name = CANDIDATE
    \/ candidate_name = ClaimedCandidateName(doc.text)

\* C12: in runs served one after the other, also after a run whose pipeline
\* failed part-way and left files in the scratch area: the files the
\* collector reads and the archiver lists were all written by the pipeline
\* of this run, the job title and the candidate name are the fallbacks or
\* are read from this run's job_analysis.json and optimized_resume.md, and
\* every artifact the run has moved is, in its RunFolder, the one this
\* run's pipeline wrote.
C12_OwnPipelineOutputOnly ==
    \A p \in Procs :
        LET run == loc[p].run
            dir == loc[p].new_output_dir
            found == loc[p].found
        IN  /\ Collecting(p) =>
                  /\ \A n \in DOMAIN scratch : scratch[n].owner = run
                  /\ IsFile(scratch, JOB_ANALYSIS)
                  /\ IsFile(scratch, OPTIMIZED_RESUME)
                  /\ pc[p] # "collect_job" =>
                         TitleFrom(loc[p].position_name, scratch[JOB_ANALYSIS])
                  /\ pc[p] = "mkdir" =>
                         NameFrom(loc[p].candidate_name, scratch[OPTIMIZED_RESUME])
            /\ Archiving(p) =>
                  /\ \A n \in DOMAIN found : found[n].owner = run
                  /\ TitleFrom(loc[p].position_name, found[JOB_ANALYSIS])
                  /\ NameFrom(loc[p].candidate_name, found[OPTIMIZED_RESUME])
                  /\ \A n \in DOMAIN found \ DOMAIN scratch :
                         /\ IsFile(folders[dir], n)
                         /\ folders[dir][n].owner = run

\* a run whose kickoff began with files of a failed run in the scratch area
\* has archived its seven artifacts under a folder named from its own title
\* and heading
C12_Witness ==
    \E p \in Procs :
        /\ pc[p] = "render"
        /\ loc[p].leftover
        /\ loc[p].run = 2
        /\ loc[p].found[JOB_ANALYSIS].json.has_job_title
        /\ loc[p].position_name = loc[p].found[JOB_ANALYSIS].json.job_title
        /\ loc[p].candidate_name = <<"Jane", "_", "Doe">>
        /\ Cardinality(DOMAIN loc[p].found \ DOMAIN scratch) = 7

====
